---- MODULE Spec2Model ----
(***************************************************************************)
(* Model of the room-scoped WebSocket fan-out core of backend/app.py:      *)
(* the ConnectionManager (rooms registry, broadcast, broadcast_user_list), *)
(* the token gate of backend/auth.py and the per-connection coroutine      *)
(* websocket_endpoint.                                                     *)
(*                                                                         *)
(* Scheduling is that of asyncio: one task per connection, run             *)
(* cooperatively.  A task runs alone from one await to the next; `cur' is  *)
(* the task that holds the event loop (0 when the loop is free to pick     *)
(* any task that is ready).  The awaits of the code are websocket.close,   *)
(* websocket.accept, websocket.receive_text, ws.send_text and              *)
(* ws.send_json.  Every send is taken to suspend its task: a run in which  *)
(* a send returns at once is one in which no other task is scheduled       *)
(* before the sender goes on.  A send writes to the transport, or fails,   *)
(* at the call.                                                            *)
(*                                                                         *)
(* The room dicts follow CPython's insertion-ordered dict and its          *)
(* iterators, which raise RuntimeError when the dict changed size, or      *)
(* gained keys, between two calls of next().  With two connections a dict  *)
(* never holds enough slots to be resized.                                 *)
(***************************************************************************)
EXTENDS Integers, Sequences, FiniteSets, TLC

\* ---- bounds and inputs ---------------------------------------------------
MaxFrames == 1       \* inbound frames read by all tasks together

Conns == {1, 2}      \* connection handles (one task each)
Users == {"alice", "bob"}
Rooms == {"r1", "r2"}

None == "None"                       \* Python's None
NoToken == [sub |-> None, valid |-> FALSE, present |-> FALSE]
Tokens == {NoToken} \cup [sub : Users \cup {None}, valid : BOOLEAN, present : {TRUE}]

\* inbound frames: plain text, the two control frames, an object with an
\* unrecognised type, a typing frame that names a user
Frames == {"hello world", "{\"type\": \"typing\"}", "{\"type\": \"stop_typing\"}",
           "{\"type\": \"ping\"}", "{\"type\": \"typing\", \"username\": \"bob\"}"}

\* ---- auth.py ------------------------------------------------------------
\* jwt.decode raises JWTError on a bad signature, an expired or a malformed
\* token; payload.get("sub") is None when the claim is absent.
\* the gate with the signature and expiry check left out
decode_token_unverified(token) ==
    token.sub

decode_token(token) ==
    IF ~token.valid THEN None
    ELSE IF token.sub = None THEN None
    ELSE token.sub

\* line 176: `not token or decode_token(token) != username`
GateRejects(token, username) ==
    \/ ~token.present
    \/ decode_token(token) # username

POLICY_VIOLATION == 1008

\* ---- the dict of one room (insertion-ordered, CPython) ---------------------
\* A room is NoRoom (key absent from self.rooms) or a dict object.  `id' is
\* the identity of the dict object (the connection whose connect() created
\* it); `ents' is the entry table in insertion order, a deleted key leaving
\* a Dummy slot behind, as the iterator positions depend on it.
NoRoom == [id |-> 0, ents |-> <<>>]
Dummy == [user |-> "", ws |-> 0]

RECURSIVE SeqKeys(_)
SeqKeys(ents) ==
    IF ents = <<>> THEN <<>>
    ELSE IF Head(ents) = Dummy THEN SeqKeys(Tail(ents))
    ELSE <<Head(ents).user>> \o SeqKeys(Tail(ents))

\* list(d.keys())
DictKeys(d) == SeqKeys(d.ents)
\* len(d)
DictLen(d) == Len(DictKeys(d))
\* `username in d'
HasKey(d, u) == \E i \in 1..Len(d.ents) : d.ents[i] # Dummy /\ d.ents[i].user = u
\* d[u]
DictGet(d, u) ==
    d.ents[CHOOSE i \in 1..Len(d.ents) : d.ents[i] # Dummy /\ d.ents[i].user = u].ws
\* d[u] = ws : an existing key keeps its slot, a new key is appended
DictSet(d, u, w) ==
    IF HasKey(d, u)
    THEN [d EXCEPT !.ents = [i \in 1..Len(d.ents) |->
              IF d.ents[i] # Dummy /\ d.ents[i].user = u
              THEN [user |-> u, ws |-> w] ELSE d.ents[i]]]
    ELSE [d EXCEPT !.ents = Append(d.ents, [user |-> u, ws |-> w])]
\* del d[u]  (the caller has checked the key is present)
DictDel(d, u) ==
    [d EXCEPT !.ents = [i \in 1..Len(d.ents) |->
        IF d.ents[i] # Dummy /\ d.ents[i].user = u THEN Dummy ELSE d.ents[i]]]

\* the connections the dict holds
DictConns(d) == {d.ents[i].ws : i \in {j \in 1..Len(d.ents) : d.ents[j] # Dummy}}

\* iter(d.items()) / iter(d.values()): position, the size seen at creation
\* and the number of items still expected
NoIter == [id |-> 0, pos |-> 0, used |-> 0, len |-> 0]
NewIter(d) == [id |-> d.id, pos |-> 1, used |-> DictLen(d), len |-> DictLen(d)]

\* first live slot at or after position p, 0 when there is none
NextSlot(d, p) ==
    IF \E i \in p..Len(d.ents) : d.ents[i] # Dummy
    THEN CHOOSE i \in p..Len(d.ents) :
            d.ents[i] # Dummy /\ \A j \in p..(i-1) : d.ents[j] = Dummy
    ELSE 0

\* next(it) on the dict object the iterator was made from; `d' is what
\* self.rooms holds for the room now.  The outcome is "RuntimeError"
\* (dictionary changed size / keys changed during iteration),
\* "StopIteration" or "item".  A dict object that is no longer in
\* self.rooms was emptied before it was dropped, so its size differs from
\* the size the iterator saw.
IterOutcome(it, d) ==
    IF d.id # it.id THEN "RuntimeError"
    ELSE IF DictLen(d) # it.used THEN "RuntimeError"
    ELSE IF NextSlot(d, it.pos) = 0 THEN "StopIteration"
    ELSE IF it.len = 0 THEN "RuntimeError"
    ELSE "item"
IterItem(it, d) == d.ents[NextSlot(d, it.pos)]
IterAdvance(it, d) == [it EXCEPT !.pos = NextSlot(d, it.pos) + 1, !.len = it.len - 1]

\* ---- wire formats (lines 78-81, 182, 195-198, 203-206, 214, 218) ---------
\* A text is the sequence of its pieces.  The two notices start with the
\* marker bytes the source has in front of the username.
JoinedText(username, room) == <<"(green) ", username, " joined room: ", room>>
LeftText(username, room) == <<"(red) ", username, " left room: ", room>>
ChatText(username, message) == <<username, ": ", message>>
\* the typing event relayed without the sender's name
TypingJson_anonymous(username) == <<"{\"type\": \"typing\"}">>
TypingJson(username) == <<"{\"type\": \"typing\", \"username\": \"", username, "\"}">>
StopTypingJson(username) == <<"{\"type\": \"stop_typing\", \"username\": \"", username, "\"}">>
UserListJson(users) == <<"{\"type\": \"user_list\", \"users\": [">> \o users \o <<"]}">>

\* json.loads(message) followed by payload.get("type") (lines 191-201):
\* "error" when either raises (not JSON, or JSON that is no object), else
\* the value of "type" (None when the key is absent)
PayloadType(message) ==
    CASE message = "{\"type\": \"typing\"}" -> "typing"
      [] message = "{\"type\": \"typing\", \"username\": \"bob\"}" -> "typing"
      [] message = "{\"type\": \"stop_typing\"}" -> "stop_typing"
      [] message = "{\"type\": \"ping\"}" -> "ping"
      [] message = "{}" -> None
      [] OTHER -> "error"

\* ---- state ----------------------------------------------------------------
VARIABLES
    rooms,      \* manager.rooms : room -> dict (NoRoom when the key is absent)
    pc,         \* where each connection's task stands
    cur,        \* the task running on the event loop, 0 when it is free
    alive,      \* transport of the connection still connected to its client
    closeCode,  \* status the server closed the connection with, 0 if none
    room,       \* websocket_endpoint's `room' argument
    username,   \* websocket_endpoint's `username' argument
    token,      \* websocket_endpoint's `token' local (the query parameter)
    message,    \* websocket_endpoint's `message' local, the frame last read
    call,       \* frame of the running manager.broadcast / broadcast_user_list
    exc,        \* exception propagating in the task, None if none
    last,       \* what each connection was sent last, by which call, and its last user_list
    db,         \* rows committed by save_message
    nframes,    \* frames read so far
    nissued,    \* manager.broadcast / broadcast_user_list calls so far
    superseded, \* history: connections whose registry entry connect() overwrote
    trail       \* history: per connection, the steps of lines 217-219 it began

vars == <<rooms, pc, cur, alive, closeCode, room, username, token, message, call, exc,
          last, db, nframes, nissued, superseded, trail>>

\* `members' and `sent' are history: the connections in the room's dict at
\* the call, and those the call has written its message to, in order
NoCall == [site |-> "none", msg |-> <<>>, n |-> 0, it |-> NoIter, dead |-> <<>>,
           target |-> "", ws |-> 0, ok |-> TRUE, members |-> {}, sent |-> <<>>]

\* nothing received yet; `users' is the last user_list payload received
NoMessage == [n |-> 0, body |-> <<>>, users |-> <<>>]

Init ==
    /\ rooms = [r \in Rooms |-> NoRoom]
    /\ pc = [c \in Conns |-> "idle"]
    /\ cur = 0
    /\ alive = [c \in Conns |-> FALSE]
    /\ closeCode = [c \in Conns |-> 0]
    /\ room = [c \in Conns |-> ""]
    /\ username = [c \in Conns |-> ""]
    /\ token = [c \in Conns |-> NoToken]
    /\ message = [c \in Conns |-> ""]
    /\ call = [c \in Conns |-> NoCall]
    /\ exc = [c \in Conns |-> None]
    /\ last = [c \in Conns |-> NoMessage]
    /\ db = <<>>
    /\ nframes = 0
    /\ nissued = 0
    /\ superseded = {}
    /\ trail = [c \in Conns |-> <<>>]

\* ---- ConnectionManager.broadcast (lines 59-70) ---------------------------
\* One turn of `for username, ws in self.rooms[room].items()' (line 62) for
\* task c, whose call frame is k and whose room dict is d now: next() on the
\* iterator, then the call of ws.send_text (line 64), where the task is
\* suspended.  A send on a transport that is gone raises when it is resumed;
\* otherwise the text is written to the transport at the call.
ForItems(c, k, d) ==
    LET out == IterOutcome(k.it, d) IN
    CASE out = "RuntimeError" ->
            /\ pc' = [pc EXCEPT ![c] = "raise"]
            /\ exc' = [exc EXCEPT ![c] = "RuntimeError"]
            /\ call' = [call EXCEPT ![c] = k]
            /\ cur' = c
            /\ UNCHANGED last
      [] out = "StopIteration" ->
            /\ pc' = [pc EXCEPT ![c] = "cleanup"]
            /\ call' = [call EXCEPT ![c] = k]
            /\ cur' = c
            /\ exc' = [exc EXCEPT ![c] = None]
            /\ UNCHANGED last
      [] OTHER ->
            LET e == IterItem(k.it, d) IN
            /\ pc' = [pc EXCEPT ![c] = "send_text"]
            /\ call' = [call EXCEPT ![c] =
                   [k EXCEPT !.it = IterAdvance(k.it, d), !.target = e.user,
                             !.ws = e.ws, !.ok = alive[e.ws],
                             !.sent = IF alive[e.ws] THEN Append(@, e.ws) ELSE @]]
            /\ last' = IF alive[e.ws]
                       THEN [last EXCEPT ![e.ws] = [@ EXCEPT !.n = k.n, !.body = k.msg]]
                       ELSE last
            /\ cur' = 0
            /\ exc' = [exc EXCEPT ![c] = None]

\* Entry of manager.broadcast(room, msg), called at `site' by task c, with R
\* the registry at the call (lines 59-62)
EnterBroadcast(c, site, msg, R) ==
    LET k == [NoCall EXCEPT !.site = site, !.msg = msg, !.n = nissued + 1] IN
    /\ nissued' = nissued + 1
    /\ IF R[room[c]] = NoRoom
       THEN /\ pc' = [pc EXCEPT ![c] = "return"]
            /\ call' = [call EXCEPT ![c] = k]
            /\ cur' = c
            /\ exc' = [exc EXCEPT ![c] = None]
            /\ UNCHANGED last
       ELSE ForItems(c, [k EXCEPT !.it = NewIter(R[room[c]]),
                                  !.members = DictConns(R[room[c]])], R[room[c]])

\* ws.send_text returns or raises (lines 63-66), and the loop goes on
SendTextDone(c) ==
    /\ cur = 0
    /\ pc[c] = "send_text"
    /\ LET k == call[c]
           dead == IF k.ok THEN k.dead ELSE Append(k.dead, k.target)
       IN ForItems(c, [k EXCEPT !.dead = dead], rooms[room[c]])
    /\ UNCHANGED <<rooms, alive, closeCode, room, username, token, message, db, nframes,
                   nissued, superseded, trail>>

\* `for u in dead: del self.rooms[room][u]' (lines 69-70): the registry after
\* the deletions that succeed, and whether one raised KeyError
RECURSIVE CleanDead(_, _, _)
CleanDead(R, r, dead) ==
    IF dead = <<>> THEN [rooms |-> R, err |-> FALSE]
    ELSE IF R[r] = NoRoom \/ ~HasKey(R[r], Head(dead)) THEN [rooms |-> R, err |-> TRUE]
    ELSE CleanDead([R EXCEPT ![r] = DictDel(R[r], Head(dead))], r, Tail(dead))

Cleanup(c) ==
    /\ cur = c
    /\ pc[c] = "cleanup"
    /\ LET res == CleanDead(rooms, room[c], call[c].dead) IN
       /\ rooms' = res.rooms
       /\ pc' = [pc EXCEPT ![c] = IF res.err THEN "raise" ELSE "return"]
       /\ exc' = [exc EXCEPT ![c] = IF res.err THEN "KeyError" ELSE None]
    /\ UNCHANGED <<cur, alive, closeCode, room, username, token, message, call, last,
                   db, nframes, nissued, superseded, trail>>

\* ---- ConnectionManager.broadcast_user_list (lines 72-84) -----------------
\* One turn of `for ws in self.rooms[room].values()' (line 83) and the call
\* of ws.send_json (line 84)
ForValues(c, k, d) ==
    LET out == IterOutcome(k.it, d) IN
    CASE out = "RuntimeError" ->
            /\ pc' = [pc EXCEPT ![c] = "raise"]
            /\ exc' = [exc EXCEPT ![c] = "RuntimeError"]
            /\ call' = [call EXCEPT ![c] = k]
            /\ cur' = c
            /\ UNCHANGED last
      [] out = "StopIteration" ->
            /\ pc' = [pc EXCEPT ![c] = "return"]
            /\ call' = [call EXCEPT ![c] = k]
            /\ cur' = c
            /\ exc' = [exc EXCEPT ![c] = None]
            /\ UNCHANGED last
      [] OTHER ->
            LET e == IterItem(k.it, d) IN
            /\ pc' = [pc EXCEPT ![c] = "send_json"]
            /\ call' = [call EXCEPT ![c] =
                   [k EXCEPT !.it = IterAdvance(k.it, d), !.target = e.user,
                             !.ws = e.ws, !.ok = alive[e.ws],
                             !.sent = IF alive[e.ws] THEN Append(@, e.ws) ELSE @]]
            /\ last' = IF alive[e.ws]
                       THEN [last EXCEPT ![e.ws] = [n |-> k.n, body |-> k.msg, users |-> k.msg]]
                       ELSE last
            /\ cur' = 0
            /\ exc' = [exc EXCEPT ![c] = None]

\* Entry of manager.broadcast_user_list(room) (lines 74-83)
EnterUserList(c, site, R) ==
    LET d == R[room[c]]
        k == [NoCall EXCEPT !.site = site, !.msg = UserListJson(DictKeys(d)),
                            !.n = nissued + 1]
    IN
    /\ nissued' = nissued + 1
    /\ IF d = NoRoom
       THEN /\ pc' = [pc EXCEPT ![c] = "return"]
            /\ call' = [call EXCEPT ![c] = [k EXCEPT !.msg = <<>>]]
            /\ cur' = c
            /\ exc' = [exc EXCEPT ![c] = None]
            /\ UNCHANGED last
       ELSE ForValues(c, [k EXCEPT !.it = NewIter(d), !.members = DictConns(d)], d)

\* ws.send_json returns, or raises out of broadcast_user_list (line 84)
SendJsonDone(c) ==
    /\ cur = 0
    /\ pc[c] = "send_json"
    /\ IF call[c].ok
       THEN ForValues(c, call[c], rooms[room[c]])
       ELSE /\ pc' = [pc EXCEPT ![c] = "raise"]
            /\ exc' = [exc EXCEPT ![c] = "SendError"]
            /\ cur' = c
            /\ UNCHANGED <<call, last>>
    /\ UNCHANGED <<rooms, alive, closeCode, room, username, token, message, db, nframes,
                   nissued, superseded, trail>>

\* ---- ConnectionManager.connect / disconnect (lines 44-57) ----------------
\* lines 47-50, after websocket.accept() has returned
connect(R, c, r, u) ==
    LET d == IF R[r] = NoRoom THEN [id |-> c, ents |-> <<>>] ELSE R[r]
    IN [R EXCEPT ![r] = DictSet(d, u, c)]

\* disconnect without lines 56-57: the emptied room dict is kept
disconnect_keep_room(R, c, r, u) ==
    IF R[r] # NoRoom /\ HasKey(R[r], u)
    THEN [R EXCEPT ![r] = DictDel(R[r], u)]
    ELSE R

\* lines 53-57; the websocket argument is not used
disconnect(R, c, r, u) ==
    IF R[r] # NoRoom /\ HasKey(R[r], u)
    THEN LET d == DictDel(R[r], u)
         IN [R EXCEPT ![r] = IF DictLen(d) = 0 THEN NoRoom ELSE d]
    ELSE R

\* ---- save_message (lines 91-101) -------------------------------------------
save_message(rows, r, u, content) ==
    Append(rows, [room |-> r, username |-> u, content |-> content])

\* ---- websocket_endpoint (lines 168-219) -----------------------------------
\* A connection arrives for /ws/{r}/{u}?token=...; lines 171-178 run up to
\* the first await: websocket.close(code=1008) and return, or
\* websocket.accept().  Connections are numbered in their order of arrival,
\* and the first one to arrive asks for room r1 as alice (room names and
\* usernames are interchangeable).
Admit(c, r, u, tok) ==
    /\ cur = 0
    /\ pc[c] = "idle"
    /\ \A b \in Conns : b < c => pc[b] # "idle"
    /\ (\A b \in Conns : pc[b] = "idle") => (r = "r1" /\ u = "alice")
    /\ room' = [room EXCEPT ![c] = r]
    /\ username' = [username EXCEPT ![c] = u]
    /\ token' = [token EXCEPT ![c] = tok]
    /\ IF GateRejects(tok, u)
       THEN /\ pc' = [pc EXCEPT ![c] = "rejected"]
            /\ closeCode' = [closeCode EXCEPT ![c] = POLICY_VIOLATION]
            /\ UNCHANGED alive
       ELSE /\ pc' = [pc EXCEPT ![c] = "accept"]
            /\ alive' = [alive EXCEPT ![c] = TRUE]
            /\ UNCHANGED closeCode
    /\ UNCHANGED <<rooms, cur, message, call, exc, last, db, nframes, nissued,
                   superseded, trail>>

\* websocket.accept() has returned: the rest of manager.connect (line 181)
\* and the call of manager.broadcast at line 182
Accepted(c) ==
    /\ cur = 0
    /\ pc[c] = "accept"
    /\ rooms' = connect(rooms, c, room[c], username[c])
    /\ superseded' = superseded \cup
           {b \in DictConns(rooms[room[c]]) \ {c} :
               HasKey(rooms[room[c]], username[c])
               /\ DictGet(rooms[room[c]], username[c]) = b}
    /\ EnterBroadcast(c, "joined", JoinedText(username[c], room[c]), rooms')
    /\ UNCHANGED <<alive, closeCode, room, username, token, message, db, nframes, trail>>

\* lines 213-214: save_message, which raises when the database fails, then
\* the call of manager.broadcast
ChatMessage(c, m, dbok) ==
    IF dbok
    THEN /\ db' = save_message(db, room[c], username[c], m)
         /\ EnterBroadcast(c, "chat", ChatText(username[c], m), rooms)
    ELSE /\ pc' = [pc EXCEPT ![c] = "crashed"]
         /\ exc' = [exc EXCEPT ![c] = "DBError"]
         /\ call' = [call EXCEPT ![c] = [NoCall EXCEPT !.site = "save_message"]]
         /\ cur' = 0
         /\ UNCHANGED <<db, last, nissued>>

\* websocket.receive_text() returns the frame m (lines 187-214)
Receive(c, m, dbok) ==
    /\ cur = 0
    /\ pc[c] = "recv"
    /\ alive[c]
    /\ nframes < MaxFrames
    /\ nframes' = nframes + 1
    /\ message' = [message EXCEPT ![c] = m]
    /\ CASE PayloadType(m) = "typing" ->
              /\ EnterBroadcast(c, "typing", TypingJson(username[c]), rooms)
              /\ UNCHANGED db
         [] PayloadType(m) = "stop_typing" ->
              /\ EnterBroadcast(c, "stop_typing", StopTypingJson(username[c]), rooms)
              /\ UNCHANGED db
         [] OTHER -> ChatMessage(c, m, dbok)
    /\ UNCHANGED <<rooms, alive, closeCode, room, username, token, superseded, trail>>

\* websocket.receive_text() raises WebSocketDisconnect: lines 216-218 up to
\* the first send of the "left" notice
Disconnected(c) ==
    /\ cur = 0
    /\ pc[c] = "recv"
    /\ ~alive[c]
    /\ rooms' = disconnect(rooms, c, room[c], username[c])
    /\ EnterBroadcast(c, "left", LeftText(username[c], room[c]), rooms')
    /\ trail' = [trail EXCEPT ![c] = @ \o <<"leave", "left">>]
    /\ UNCHANGED <<alive, closeCode, room, username, token, message, db, nframes,
                   superseded>>

\* manager.broadcast / broadcast_user_list has returned to the endpoint
Return(c) ==
    /\ cur = c
    /\ pc[c] = "return"
    /\ CASE call[c].site = "joined" ->
              /\ EnterUserList(c, "user_list_join", rooms)
              /\ UNCHANGED <<trail, message>>
         [] call[c].site = "left" ->
              /\ EnterUserList(c, "user_list_left", rooms)
              /\ trail' = [trail EXCEPT ![c] = Append(@, "user_list")]
              /\ UNCHANGED message
         [] call[c].site = "user_list_left" ->
              /\ pc' = [pc EXCEPT ![c] = "done"]
              /\ call' = [call EXCEPT ![c] = NoCall]
              /\ cur' = 0
              /\ UNCHANGED <<exc, last, nissued, trail, message>>
         [] OTHER ->
              \* back at line 187, which assigns `message' before any use
              /\ pc' = [pc EXCEPT ![c] = "recv"]
              /\ call' = [call EXCEPT ![c] = NoCall]
              /\ message' = [message EXCEPT ![c] = ""]
              /\ cur' = 0
              /\ UNCHANGED <<exc, last, nissued, trail>>
    /\ UNCHANGED <<rooms, alive, closeCode, room, username, token, db, nframes,
                   superseded>>

\* manager.broadcast / broadcast_user_list has raised: the bare except of
\* line 209 catches what lines 195 and 203 raise and falls through to line
\* 213; `except WebSocketDisconnect' (line 216) catches none of these, so
\* elsewhere the exception ends the task
Raise(c, dbok) ==
    /\ cur = c
    /\ pc[c] = "raise"
    /\ IF call[c].site \in {"typing", "stop_typing"}
       THEN ChatMessage(c, message[c], dbok)
       ELSE /\ pc' = [pc EXCEPT ![c] = "crashed"]
            /\ call' = [call EXCEPT ![c] = [NoCall EXCEPT !.site = call[c].site]]
            /\ cur' = 0
            /\ UNCHANGED <<exc, last, db, nissued>>
    /\ UNCHANGED <<rooms, alive, closeCode, room, username, token, message, nframes,
                   superseded, trail>>

\* The client goes away, or the transport fails, at any time after the
\* handshake: from then on receive_text raises WebSocketDisconnect and every
\* send to the connection raises.
Drop(c) ==
    /\ cur = 0
    /\ alive[c]
    /\ pc[c] # "accept"
    /\ alive' = [alive EXCEPT ![c] = FALSE]
    /\ UNCHANGED <<rooms, pc, cur, closeCode, room, username, token, message, call,
                   exc, last, db, nframes, nissued, superseded, trail>>

Next ==
    \/ \E c \in Conns, r \in Rooms, u \in Users, tok \in Tokens : Admit(c, r, u, tok)
    \/ \E c \in Conns : Accepted(c)
    \/ \E c \in Conns, m \in Frames, dbok \in BOOLEAN : Receive(c, m, dbok)
    \/ \E c \in Conns : Disconnected(c)
    \/ \E c \in Conns : SendTextDone(c)
    \/ \E c \in Conns : Cleanup(c)
    \/ \E c \in Conns : SendJsonDone(c)
    \/ \E c \in Conns : Return(c)
    \/ \E c \in Conns, dbok \in BOOLEAN : Raise(c, dbok)
    \/ \E c \in Conns : Drop(c)

Spec == Init /\ [][Next]_vars

\* ---- three connections to one room ------------------------------------------
\* The same program with a third connection: alice connects to room r1, then
\* bob, then alice once more (a reconnect), each with a token that passes the
\* gate, and no client sends a frame: the connections join, drop and leave.
Conns3 == {1, 2, 3}
Arrivals3 == <<"alice", "bob", "alice">>
TokenOf(u) == [sub |-> u, valid |-> TRUE, present |-> TRUE]

Init3 ==
    /\ rooms = [r \in Rooms |-> NoRoom]
    /\ pc = [c \in Conns3 |-> "idle"]
    /\ cur = 0
    /\ alive = [c \in Conns3 |-> FALSE]
    /\ closeCode = [c \in Conns3 |-> 0]
    /\ room = [c \in Conns3 |-> ""]
    /\ username = [c \in Conns3 |-> ""]
    /\ token = [c \in Conns3 |-> NoToken]
    /\ message = [c \in Conns3 |-> ""]
    /\ call = [c \in Conns3 |-> NoCall]
    /\ exc = [c \in Conns3 |-> None]
    /\ last = [c \in Conns3 |-> NoMessage]
    /\ db = <<>>
    /\ nframes = 0
    /\ nissued = 0
    /\ superseded = {}
    /\ trail = [c \in Conns3 |-> <<>>]

Next3 ==
    \/ \E c \in Conns3 : Admit(c, "r1", Arrivals3[c], TokenOf(Arrivals3[c]))
    \/ \E c \in Conns3 : Accepted(c)
    \/ \E c \in Conns3 : Disconnected(c)
    \/ \E c \in Conns3 : SendTextDone(c)
    \/ \E c \in Conns3 : Cleanup(c)
    \/ \E c \in Conns3 : SendJsonDone(c)
    \/ \E c \in Conns3 : Return(c)
    \/ \E c \in Conns3 : Raise(c, TRUE)
    \/ \E c \in Conns3 : Drop(c)

Spec3 == Init3 /\ [][Next3]_vars

\* ---- vocabulary of the properties ----------------------------------------
\* connect() has put the connection into the registry at some point
InRoom(c) == pc[c] \notin {"idle", "rejected", "accept"}
\* the registry binds the connection's username, in its room, to it
IsMemberIn(R, c) ==
    /\ room[c] \in Rooms
    /\ R[room[c]] # NoRoom
    /\ HasKey(R[room[c]], username[c])
    /\ DictGet(R[room[c]], username[c]) = c
IsMember(c) == IsMemberIn(rooms, c)
\* the task has ended
Ended(c) == pc[c] \in {"rejected", "done", "crashed"}
Count(seq, x) == Cardinality({i \in 1..Len(seq) : seq[i] = x})
BroadcastSites == {"joined", "typing", "stop_typing", "chat", "left"}
UserListSites == {"user_list_join", "user_list_left"}

\* ---- C1 ---------------------------------------------------------------------
\* C1: a connection attempt whose token is missing, fails verification or
\* verifies to a subject other than the claimed username is closed with
\* code 1008 and goes straight to Closed: the registry is unchanged, nothing
\* is sent to anyone, and the connection never becomes a member.
C1_AdmissionGate ==
    [][\A c \in Conns :
         /\ ( /\ pc[c] = "idle"
              /\ pc'[c] # "idle"
              /\ \/ ~token'[c].present
                 \/ ~token'[c].valid
                 \/ token'[c].sub # username'[c] )
            => /\ pc'[c] = "rejected"
               /\ closeCode'[c] = 1008
               /\ rooms' = rooms
               /\ last' = last
               /\ nissued' = nissued
         /\ pc[c] = "rejected"
            => /\ pc'[c] = "rejected"
               /\ \A r \in Rooms : c \notin DictConns(rooms'[r])
               /\ last'[c] = last[c]
      ]_vars

\* a connection claiming one user with a valid token of another was rejected
\* while the room had a member
C1_Witness ==
    \E c \in Conns :
        /\ pc[c] = "rejected"
        /\ closeCode[c] = 1008
        /\ token[c].present /\ token[c].valid
        /\ token[c].sub \in Users /\ token[c].sub # username[c]
        /\ rooms[room[c]] # NoRoom
        /\ DictLen(rooms[room[c]]) > 0

\* ---- C2 ---------------------------------------------------------------------
\* C2: when a second connection is admitted with the (room, username) of a
\* member, the connection it supersedes is closed with a "replaced" status
\* and is no member any more.
C2_Supersession ==
    \A a \in superseded : ~IsMember(a) /\ closeCode[a] # 0

\* ---- C3 ---------------------------------------------------------------------
\* C3: the leave run for a disconnected connection removes that connection's
\* own Member and nobody else's: a newer Member of the same username stays.
C3_GuardedLeave ==
    [][\A c \in Conns :
         (pc[c] = "recv" /\ ~alive[c] /\ pc'[c] # "recv")
         => /\ ~IsMemberIn(rooms', c)
            /\ \A b \in Conns \ {c} : IsMemberIn(rooms, b) => IsMemberIn(rooms', b)
      ]_vars

\* ---- C4 ---------------------------------------------------------------------
\* C4: the snapshot of a room lists no username twice, lists only usernames
\* of connections that joined and were neither superseded nor ran their
\* leave, and lists the username of every joined connection that is still
\* connected and was not superseded.
C4_Snapshot ==
    \A r \in Rooms :
        LET snap == DictKeys(rooms[r]) IN
        /\ \A i, j \in 1..Len(snap) : i # j => snap[i] # snap[j]
        /\ \A c \in DictConns(rooms[r]) :
              InRoom(c) /\ c \notin superseded /\ trail[c] = <<>>
        /\ \A c \in Conns :
              (InRoom(c) /\ room[c] = r /\ alive[c] /\ c \notin superseded)
              => \E i \in 1..Len(snap) : snap[i] = username[c]

\* ---- C5 ---------------------------------------------------------------------
\* C5: for an admitted connection whose transport has disconnected and whose
\* task has ended, the sequence leave, "left" notice, presence snapshot has
\* run exactly once.
C5_LeaveOnce ==
    \A c \in Conns :
        (InRoom(c) /\ ~alive[c] /\ Ended(c))
        => trail[c] = <<"leave", "left", "user_list">>

\* ---- C6 ---------------------------------------------------------------------
\* C6: a send failure during a broadcast, the user_list broadcast included,
\* never propagates to the calling task, and when the call ends every
\* connection that was a member at the call, still is and is connected has
\* been sent the event.
C6_DeliveryContained ==
    \A c \in Conns :
        /\ pc[c] \in {"raise", "crashed"} => exc[c] # "SendError"
        /\ (pc[c] \in {"return", "raise"} /\ (call[c].dead # <<>> \/ ~call[c].ok))
           => \A w \in call[c].members :
                 (alive[w] /\ IsMember(w)) => Count(call[c].sent, w) = 1

\* ---- C7 ---------------------------------------------------------------------
\* C7: a failure of the persistence collaborator while a chat frame is
\* recorded does not end the sender's task.
C7_PersistenceContained ==
    \A c \in Conns : ~(pc[c] = "crashed" /\ exc[c] = "DBError")

\* ---- C8 ---------------------------------------------------------------------
\* C8: every connection is sent the events of a room in the order in which
\* the broadcast calls were issued.
C8_CallOrder ==
    [][\A w \in Conns : last'[w] # last[w] => last'[w].n > last[w].n]_vars

\* ---- C9 ---------------------------------------------------------------------
\* C9: when the broadcast of a chat message ends, the text "u: text" has been
\* sent exactly once to every connection that was a member at the call, is
\* still one and is connected, and twice to nobody.
C9_ChatFanout ==
    \A c \in Conns :
        (pc[c] \in {"return", "raise"} /\ call[c].site = "chat")
        => /\ call[c].msg = <<username[c], ": ", message[c]>>
           /\ \A w \in Conns : Count(call[c].sent, w) <= 1
           /\ \A w \in call[c].members :
                 (alive[w] /\ IsMember(w)) => Count(call[c].sent, w) = 1

\* ---- C10 --------------------------------------------------------------------
\* C10: manager.broadcast never raises, and when it has returned no username
\* whose send failed is in the room's snapshot.
C10_Eviction ==
    \A c \in Conns :
        call[c].site \in BroadcastSites
        => /\ pc[c] # "raise"
           /\ pc[c] = "return"
              => \A i \in 1..Len(call[c].dead) :
                    ~HasKey(rooms[room[c]], call[c].dead[i])

\* ---- C11 --------------------------------------------------------------------
ControlTypes == {"typing", "stop_typing"}

\* C11: a typing (stop_typing) frame from member u causes one Typing(u)
\* (StopTyping(u)) broadcast and no call of the persistence collaborator, and
\* the connection goes on streaming: no row holds a control frame, and a task
\* handling a control frame is in, or back from, that one broadcast.
C11_ControlFrames ==
    /\ \A i \in 1..Len(db) : PayloadType(db[i].content) \notin ControlTypes
    /\ \A c \in Conns :
          PayloadType(message[c]) \in ControlTypes
          => /\ call[c].site = PayloadType(message[c])
             /\ call[c].msg = IF PayloadType(message[c]) = "typing"
                              THEN TypingJson(username[c])
                              ELSE StopTypingJson(username[c])
             /\ pc[c] # "crashed"

\* ---- C12 --------------------------------------------------------------------
\* C12: reading a frame that is no typing / stop_typing control frame causes
\* one record (room, user, whole frame text) with the persistence
\* collaborator and, after it, one Chat broadcast "user: frame text".
C12_ChatFrames ==
    [][\A c \in Conns :
         ( /\ pc[c] = "recv"
           /\ message'[c] # ""
           /\ PayloadType(message'[c]) \notin ControlTypes )
         => /\ db' = Append(db, [room |-> room[c], username |-> username[c],
                                 content |-> message'[c]])
            /\ nissued' = nissued + 1
            /\ call'[c].site = "chat"
            /\ call'[c].msg = ChatText(username[c], message'[c])
      ]_vars

\* ---- C13 --------------------------------------------------------------------
\* C13: manager.disconnect for the last member of a room leaves the room
\* with an empty snapshot and without an entry in the registry; called for a
\* username, or a room, that is not registered it changes nothing and the
\* task goes on to the "left" broadcast; run a second time it changes
\* nothing.
C13_LastLeave ==
    [][\A c \in Conns :
         (pc[c] = "recv" /\ ~alive[c] /\ pc'[c] # "recv")
         => LET r == room[c]
                u == username[c]
            IN /\ IF rooms[r] # NoRoom /\ HasKey(rooms[r], u)
                  THEN /\ ~(rooms'[r] # NoRoom /\ HasKey(rooms'[r], u))
                       /\ DictLen(rooms[r]) = 1
                          => (rooms'[r] = NoRoom /\ DictKeys(rooms'[r]) = <<>>)
                  ELSE rooms' = rooms
               /\ disconnect(rooms', c, r, u) = rooms'
               /\ pc'[c] \in {"send_text", "cleanup", "return"}
               /\ exc'[c] = None
      ]_vars

\* two connections of one username have both run their leave, the second of
\* them for a member already removed, and the room is gone
C13_Witness ==
    \E c \in Conns : \E b \in Conns \ {c} :
        /\ room[b] = room[c] /\ username[b] = username[c]
        /\ trail[c] # <<>> /\ trail[b] # <<>>
        /\ rooms[room[c]] = NoRoom

\* ---- C14 --------------------------------------------------------------------
\* C14: every join, and every leave run for a disconnect, is followed by a
\* user_list broadcast (the task does not end between lines 182 and 183, or
\* 218 and 219), and the list announced for a join holds the joining
\* username.
C14_PresenceAnnounced ==
    \A c \in Conns :
        /\ ~(pc[c] = "crashed" /\ call[c].site \in {"joined", "left"})
        /\ call[c].site = "user_list_join"
           => \E i \in 1..Len(call[c].msg) : call[c].msg[i] = username[c]

\* ---- C15 --------------------------------------------------------------------
\* C15: a broadcast delivers to exactly the members the room had at the
\* call: a join, supersession or leave by another task while it is suspended
\* on a send does not abort it (next() never raises RuntimeError), adds no
\* recipient and removes none that is still connected.
C15_PointInTime ==
    \A c \in Conns :
        /\ ~(pc[c] = "raise" /\ exc[c] = "RuntimeError")
        /\ \A i \in 1..Len(call[c].sent) : call[c].sent[i] \in call[c].members
        /\ pc[c] = "return"
           => \A w \in call[c].members :
                 alive[w] => \E i \in 1..Len(call[c].sent) : call[c].sent[i] = w

\* ---- C16 --------------------------------------------------------------------
\* C16: once the task of a connection has ended, by whatever path, no room
\* of the registry holds the connection.
C16_NoLeak ==
    \A c \in Conns : Ended(c) => \A r \in Rooms : c \notin DictConns(rooms[r])

\* ---- C17 --------------------------------------------------------------------
\* C17: the eviction at the end of a broadcast (lines 69-70) removes only
\* Members bound to a connection whose send failed: a Member whose
\* connection is still connected, such as one that superseded the failed
\* connection while the broadcast was delivering, stays in the registry.
C17_GuardedEviction ==
    [][\A c \in DOMAIN pc :
         (pc[c] = "cleanup" /\ pc'[c] # "cleanup")
         => \A b \in DOMAIN pc :
               (IsMemberIn(rooms, b) /\ alive[b]) => IsMemberIn(rooms', b)
      ]_vars

\* ---- C18 --------------------------------------------------------------------
\* C18: every room that has an entry in the registry has at least one
\* member.
C18_NoEmptyRooms ==
    \A r \in Rooms : rooms[r] # NoRoom => DictLen(rooms[r]) >= 1

\* ---- C19 --------------------------------------------------------------------
\* no join, leave or broadcast is in progress or pending: every task is
\* waiting in receive_text on a connected transport, has ended, or belongs
\* to a connection that has not arrived
Quiescent ==
    /\ cur = 0
    /\ \A c \in DOMAIN pc :
          \/ pc[c] \in {"idle", "rejected", "done", "crashed"}
          \/ pc[c] = "recv" /\ alive[c]

\* C19: once the rooms are quiescent, the last user_list received by each
\* member that is connected and streaming lists the current membership of
\* its room.
C19_PresenceConverges ==
    Quiescent
    => \A w \in DOMAIN pc :
          (IsMember(w) /\ alive[w] /\ pc[w] = "recv")
          => last[w].users = UserListJson(DictKeys(rooms[room[w]]))

\* ---- C20 --------------------------------------------------------------------
\* C20: every joined, left, chat, typing and stop_typing event a task
\* broadcasts names the username the task was admitted with, which is the
\* subject of its verified token, and goes to connections registered in the
\* room the task was admitted to, whatever the frame says.
C20_SenderAttribution ==
    \A c \in DOMAIN pc :
        (call[c].site \in BroadcastSites /\ call[c].msg # <<>>)
        => LET msg == call[c].msg IN
           /\ token[c].present /\ token[c].valid /\ token[c].sub = username[c]
           /\ CASE call[c].site = "chat" ->
                     Len(msg) = 3 /\ msg[1] = username[c] /\ msg[3] = message[c]
                [] call[c].site \in ControlTypes ->
                     Len(msg) = 3 /\ msg[2] = username[c]
                [] OTHER ->
                     Len(msg) = 4 /\ msg[2] = username[c] /\ msg[4] = room[c]
           /\ \A w \in call[c].members : room[w] = room[c]
           /\ \A i \in 1..Len(call[c].sent) : room[call[c].sent[i]] = room[c]

\* alice's typing frame names bob, and the event broadcast for it has been
\* sent to two connections
C20_Witness ==
    \E c \in DOMAIN pc :
        /\ message[c] = "{\"type\": \"typing\", \"username\": \"bob\"}"
        /\ username[c] = "alice"
        /\ call[c].site = "typing"
        /\ Len(call[c].sent) = 2

====
